---------------------------- MODULE Spec2Model ----------------------------
(***************************************************************************)
(* Multi-media sync server (src/server.js): the session registry, the      *)
(* role-gated command handler, the playback state record, the uploads      *)
(* catalog with its directory watcher, and the stale-client sweep.         *)
(*                                                                         *)
(* JavaScript values are tagged tuples: <<"null">>, <<"undef">>,           *)
(* <<"str", s>> with s a sequence of one-character strings,                *)
(* <<"num", n>>, <<"bool", b>>.  Command types and media types are         *)
(* enumerations and are written as TLA+ strings.                           *)
(***************************************************************************)
EXTENDS Integers, Sequences, FiniteSets, TLC

VARIABLES
    connected,          \* sockets of the io namespace (transport connected)
    clients,            \* Map socket.id -> lastSeen           (server.js:223)
    controllers,        \* Map socket.id -> lastSeen           (server.js:224)
    room,               \* members of the socket.io room 'controllers'
    uploadedFiles,      \* Map filename -> fileInfo            (server.js:225)
    currentMediaState,  \* the playback state record           (server.js:235)
    disk,               \* regular files present in the uploads directory
    watching,           \* TRUE once fs.watch has been installed
    pending,            \* debounce timers not yet fired, oldest first
    now,                \* Date.now(), in milliseconds since process start
    lastTick,           \* time of the last run of the cleanup interval
    events,             \* inbound messages, requests, fs changes, periods so far
    last,               \* the handler that ran in the last step, its inputs
    sent,               \* what that handler emitted, in order
    replica             \* per socket: the page's view of the playback state,
                        \* and its commands the server has not received yet;
                        \* empty where the pages are not followed

vars == << connected, clients, controllers, room, uploadedFiles,
           currentMediaState, disk, watching, pending, now, lastTick,
           events, last, sent, replica >>

---------------------------------------------------------------------------
(* Bounds of the model.                                                    *)

MaxEvents == 6
MaxTicks == 3
MaxTimers == 2
MaxWatchEvents == 4
MaxOutbox == 1          \* commands of one page the server has not received yet

(* Program constants.                                                      *)

IdLen == 11
StaleTimeout == 120000
CleanupInterval == 60000
DefaultVolume == 100

Sockets == {"s1", "s2"}

---------------------------------------------------------------------------
(* JavaScript values.                                                      *)

Null == <<"null">>
Undef == <<"undef">>
Str(s) == <<"str", s>>
Num(n) == <<"num", n>>
Bool(b) == <<"bool", b>>

\* JavaScript truthiness, as used by `if (x)`, `!x` and `x || y`.
Truthy(v) ==
    CASE v[1] = "null"  -> FALSE
      [] v[1] = "undef" -> FALSE
      [] v[1] = "str"   -> v[2] # << >>
      [] v[1] = "num"   -> v[2] # 0
      [] v[1] = "bool"  -> v[2]

\* x || y
OrElse(x, y) == IF Truthy(x) THEN x ELSE y

\* String.prototype.includes on character sequences.
Includes(hay, needle) ==
    \E i \in 0..(Len(hay) - Len(needle)) :
        SubSeq(hay, i + 1, i + Len(needle)) = needle

---------------------------------------------------------------------------
(* Strings of the program, as character sequences.                         *)

IdChars == {"a", "b", "c", "d", "e", "f", "g", "h", "i", "j", "k", "l", "m", "n", "o", "p", "q", "r", "s", "t", "u", "v", "w", "x", "y", "z", "A", "B", "C", "D", "E", "F", "G", "H", "I", "J", "K", "L", "M", "N", "O", "P", "Q", "R", "S", "T", "U", "V", "W", "X", "Y", "Z", "0", "1", "2", "3", "4", "5", "6", "7", "8", "9", "_", "-"}
UpperCase == <<"A", "B", "C", "D", "E", "F", "G", "H", "I", "J", "K", "L", "M", "N", "O", "P", "Q", "R", "S", "T", "U", "V", "W", "X", "Y", "Z">>
LowerCase == <<"a", "b", "c", "d", "e", "f", "g", "h", "i", "j", "k", "l", "m", "n", "o", "p", "q", "r", "s", "t", "u", "v", "w", "x", "y", "z">>

\* The two literal alternatives of the pattern
\* /(?:youtube\.com\/watch\?v=|youtu\.be\/)([a-zA-Z0-9_-]{11})/
WatchLit == <<"y", "o", "u", "t", "u", "b", "e", ".", "c", "o", "m", "/", "w", "a", "t", "c", "h", "?", "v", "=">>
ShortLit == <<"y", "o", "u", "t", "u", ".", "b", "e", "/">>

\* The pattern matches at position i of u with the literal lit: lit, then
\* IdLen characters of the class [a-zA-Z0-9_-].
MatchAt(u, i, lit) ==
    /\ i + Len(lit) + IdLen - 1 <= Len(u)
    /\ SubSeq(u, i, i + Len(lit) - 1) = lit
    /\ \A k \in (i + Len(lit))..(i + Len(lit) + IdLen - 1) : u[k] \in IdChars

\* The capture group of the match at position i.
CaptureAt(u, i, lit) == SubSeq(u, i + Len(lit), i + Len(lit) + IdLen - 1)

\* Faulty variant: the pattern takes up to IdLen characters after the literal,
\* as {1,11} would, instead of exactly IdLen.
ytMatchUpTo(u) ==
    LET starts(lit) == {i \in 1..Len(u) : /\ i + Len(lit) <= Len(u)
                                          /\ SubSeq(u, i, i + Len(lit) - 1) = lit
                                          /\ u[i + Len(lit)] \in IdChars}
        take(i, lit) ==
            LET from == i + Len(lit)
                upto == IF from + IdLen - 1 <= Len(u) THEN from + IdLen - 1 ELSE Len(u)
            IN  Str(SubSeq(u, from, upto))
    IN  IF starts(WatchLit) # {}
        THEN take(CHOOSE i \in starts(WatchLit) : TRUE, WatchLit)
        ELSE IF starts(ShortLit) # {}
        THEN take(CHOOSE i \in starts(ShortLit) : TRUE, ShortLit)
        ELSE Null

\* data.url.match(...): ytMatch ? ytMatch[1] : null.  The leftmost match wins;
\* at one position the first alternative is tried first.
ytMatch(u) ==
    LET hits == {i \in 1..Len(u) : MatchAt(u, i, WatchLit) \/ MatchAt(u, i, ShortLit)}
    IN  IF hits = {} THEN Null
        ELSE LET i == CHOOSE j \in hits : \A k \in hits : j <= k
             IN  IF MatchAt(u, i, WatchLit)
                 THEN Str(CaptureAt(u, i, WatchLit))
                 ELSE Str(CaptureAt(u, i, ShortLit))

\* String.prototype.toLowerCase, on the ASCII letters.
LowerChar(c) ==
    IF \E i \in 1..Len(UpperCase) : UpperCase[i] = c
    THEN LowerCase[CHOOSE i \in 1..Len(UpperCase) : UpperCase[i] = c]
    ELSE c

toLowerCase(s) == [i \in 1..Len(s) |-> LowerChar(s[i])]

\* path.extname: from the last "." of the name to its end; empty when the
\* name has no "." or only a leading one.
extname(f) ==
    LET dots == {i \in 1..Len(f) : f[i] = "."}
    IN  IF dots = {} THEN << >>
        ELSE LET d == CHOOSE i \in dots : \A j \in dots : j <= i
             IN  IF d = 1 THEN << >> ELSE SubSeq(f, d, Len(f))

videoExts == <<<<".", "m", "p", "4">>, <<".", "w", "e", "b", "m">>, <<".", "m", "k", "v">>, <<".", "a", "v", "i">>, <<".", "m", "o", "v">>, <<".", "f", "l", "v">>, <<".", "w", "m", "v">>, <<".", "m", "4", "v">>, <<".", "3", "g", "p">>>>
audioExts == <<<<".", "m", "p", "3">>, <<".", "w", "a", "v">>, <<".", "o", "g", "g">>, <<".", "m", "4", "a">>, <<".", "a", "a", "c">>, <<".", "f", "l", "a", "c">>>>
allowedTypes == <<<<"m", "p", "4">>, <<"m", "p", "3">>, <<"w", "e", "b", "m">>, <<"o", "g", "g">>, <<"w", "a", "v">>, <<"m", "4", "a">>, <<"m", "k", "v">>, <<"a", "v", "i">>, <<"m", "o", "v">>, <<"f", "l", "v">>, <<"w", "m", "v">>, <<"m", "4", "v">>, <<"3", "g", "p">>>>

\* Array.prototype.includes
InList(list, x) == \E i \in 1..Len(list) : list[i] = x

\* The file type the scan and the watcher derive from a file name:
\* "local_video", "local_audio" or "null".
fileTypeOf(filename) ==
    LET ext == toLowerCase(extname(filename))
    IN  IF InList(videoExts, ext) THEN "local_video"
        ELSE IF InList(audioExts, ext) THEN "local_audio"
        ELSE "null"

UploadsPrefix == <<"/", "u", "p", "l", "o", "a", "d", "s", "/">>

\* `/uploads/${filename}`
urlOf(filename) == Str(UploadsPrefix \o filename)

\* The fileInfo record of the scan and the watcher (size and uploadedAt,
\* which nothing reads back, are left out).
fileInfoOf(filename) ==
    [id |-> filename, originalName |-> filename, url |-> urlOf(filename),
     type |-> fileTypeOf(filename)]

---------------------------------------------------------------------------
(* The inputs of the model.                                                *)

FileA == <<"a", ".", "m", "p", "4">>
FileB == <<"1", "-", "a", ".", "m", "p", "4">>
FileT == <<"n", ".", "t", "x", "t">>

\* Names a file of the uploads directory can have.
Files == {FileA, FileB, FileT}

\* What the uploads directory holds when the process starts.
InitialDisks == { {}, {FileA, FileT} }

\* The suffix multer's filename callback prepends (Date.now()-random-).
UniqueSuffix == <<"1", "-">>

\* Original names and mime kinds of the uploads tried.
UploadNames == {FileA}
MimeKinds == {"video", "audio", "other"}

UrlWatch == <<"y", "o", "u", "t", "u", "b", "e", ".", "c", "o", "m", "/", "w", "a", "t", "c", "h", "?", "v", "=", "A", "B", "C", "D", "E", "F", "G", "H", "I", "J", "K">>
UrlShort == <<"y", "o", "u", "t", "u", ".", "b", "e", "/", "a", "b", "c", "_", "D", "E", "F", "-", "1", "2", "3">>
UrlBad == <<"n", "o", "t", "-", "a", "-", "v", "i", "d", "e", "o", "-", "u", "r", "l">>
UrlTenChars == <<"y", "o", "u", "t", "u", ".", "b", "e", "/", "A", "B", "C", "D", "E", "F", "G", "H", "I", "J">>
IdABC == <<"A", "B", "C", "D", "E", "F", "G", "H", "I", "J", "K">>
IdShort == <<"a", "b", "c", "_", "D", "E", "F", "-", "1", "2", "3">>
Unknown == <<"U", "n", "k", "n", "o", "w", "n">>

\* A command payload; a field the sender left out reads as undefined.
Cmd(type) ==
    [type |-> type, mediaType |-> "undefined", url |-> Undef, videoId |-> Undef,
     fileUrl |-> Undef, fileName |-> Undef, time |-> Undef, volume |-> Undef,
     muted |-> Undef]

LoadUrl(u) == [Cmd("load") EXCEPT !.mediaType = "youtube", !.url = Str(u)]
LoadId(id) == [Cmd("load") EXCEPT !.mediaType = "youtube", !.videoId = Str(id)]
LoadFile(mt, f, name) ==
    [Cmd("load") EXCEPT !.mediaType = mt, !.fileUrl = urlOf(f), !.fileName = name]

YoutubeLoads ==
    { LoadUrl(UrlWatch), LoadUrl(UrlShort), LoadUrl(UrlBad), LoadUrl(UrlTenChars),
      LoadId(IdABC), [Cmd("load") EXCEPT !.mediaType = "youtube"],
      [LoadId(IdABC) EXCEPT !.url = Str(<< >>)] }

LocalLoads ==
    { LoadFile("local_video", FileB, Str(FileA)),
      LoadFile("local_audio", FileA, Undef),
      [Cmd("load") EXCEPT !.mediaType = "local_video"],
      [Cmd("load") EXCEPT !.mediaType = "local_audio", !.fileName = Str(FileA)] }

OtherCommands ==
    { Cmd("play"), Cmd("pause"),
      [Cmd("seek") EXCEPT !.time = Num(30)],
      [Cmd("volume") EXCEPT !.volume = Num(50)],
      [Cmd("mute") EXCEPT !.muted = Bool(TRUE)] }

\* The commands tried against the command handler alone.
AllCommands == YoutubeLoads \cup LocalLoads \cup OtherCommands

\* The commands tried against the whole server.
Commands ==
    { LoadUrl(UrlWatch), LoadUrl(UrlBad),
      LoadFile("local_video", FileB, Str(FileA)),
      [Cmd("load") EXCEPT !.mediaType = "local_audio"],
      Cmd("pause"),
      [Cmd("volume") EXCEPT !.volume = Num(50)] }

\* The commands tried against updateMediaState: every type of its switch,
\* with seek and volume values inside and outside the documented ranges,
\* absent, and not numbers.
Letters == <<"a", "b", "c">>
PlaybackCommands ==
    { Cmd("play"), Cmd("pause"), Cmd("restart"),
      [Cmd("seek") EXCEPT !.time = Num(30)],
      [Cmd("seek") EXCEPT !.time = Num(-5)],
      [Cmd("seek") EXCEPT !.time = Str(Letters)],
      Cmd("seek"),
      [Cmd("volume") EXCEPT !.volume = Num(50)],
      [Cmd("volume") EXCEPT !.volume = Num(150)],
      [Cmd("volume") EXCEPT !.volume = Num(-5)],
      [Cmd("mute") EXCEPT !.muted = Bool(TRUE)],
      LoadUrl(UrlWatch) }

\* The commands tried against the dispatch of socket.on("command"): a type
\* and a media type the handler has no branch for, beside ones it has.
UnknownType == "skip"
UnknownMediaType == "vimeo"
DispatchCommands ==
    { Cmd(UnknownType),
      [Cmd(UnknownType) EXCEPT !.time = Num(30), !.volume = Num(50)],
      [Cmd("load") EXCEPT !.mediaType = UnknownMediaType, !.url = Str(UrlWatch)],
      Cmd("load"),
      LoadUrl(UrlWatch), LoadUrl(UrlBad),
      LoadFile("local_audio", FileA, Undef),
      [Cmd("load") EXCEPT !.mediaType = "local_video"],
      Cmd("pause") }

\* The commands tried against the watcher.
WatchCommands ==
    { LoadFile("local_video", FileB, Str(FileA)),
      LoadFile("local_audio", FileA, Undef),
      LoadUrl(UrlWatch),
      [Cmd("volume") EXCEPT !.volume = Num(50)] }

\* data?.role of an identify message.
Roles == {"controller", "viewer"}

---------------------------------------------------------------------------
(* Maps, emissions, the initial state.                                     *)

\* Map.prototype.set and Map.prototype.delete
Put(map, k, v) == [x \in (DOMAIN map) \cup {k} |-> IF x = k THEN v ELSE map[x]]
Drop(map, k) == [x \in (DOMAIN map) \ {k} |-> map[x]]

\* One emit call: the event, its payload, the sockets it is sent to.
Emit(ev, data, to) == [ev |-> ev, data |-> data, to |-> to]

\* Faulty variant: the two sizes are put under each other's key.
countsOfSwapped(cl, co) ==
    [clients |-> Cardinality(DOMAIN co), controllers |-> Cardinality(DOMAIN cl)]

\* { clients: clients.size, controllers: controllers.size }
countsOf(cl, co) ==
    [clients |-> Cardinality(DOMAIN cl), controllers |-> Cardinality(DOMAIN co)]

NoData == Cmd("none")

Ran(op, s, data, f, status) ==
    [op |-> op, sock |-> s, data |-> data, file |-> f, status |-> status]

\* A playback state without its time stamp.
Strip(state) == [state EXCEPT !.lastUpdate = 0]

\* The view of a page that has received no current_state yet.
Unseen ==
    [mediaType |-> "unseen", videoId |-> Null, fileUrl |-> Null,
     fileName |-> Null, time |-> Num(0), isPlaying |-> FALSE,
     volume |-> Num(DefaultVolume), isMuted |-> Bool(FALSE), lastUpdate |-> 0]

\* A page right after its socket has connected.
Fresh == [view |-> Unseen, outbox |-> << >>]

\* The pages are not followed: only the server is.
NoPages == << >>

\* The module-level initialisation.  Neither loadExistingFiles nor
\* watchUploadsDirectory is called when the module is loaded or in the
\* listen callback: the catalog starts empty whatever the directory holds,
\* and no watcher is installed.
Init ==
    /\ connected = {}
    /\ clients = << >>
    /\ controllers = << >>
    /\ room = {}
    /\ uploadedFiles = << >>
    /\ currentMediaState =
          [mediaType |-> "null", videoId |-> Null, fileUrl |-> Null,
           fileName |-> Null, time |-> Num(0), isPlaying |-> FALSE,
           volume |-> Num(DefaultVolume), isMuted |-> Bool(FALSE), lastUpdate |-> 0]
    /\ disk \in InitialDisks
    /\ watching = FALSE
    /\ pending = << >>
    /\ now = 0
    /\ lastTick = 0
    /\ events = 0
    /\ last = Ran("start", "none", NoData, << >>, 0)
    /\ sent = << >>
    /\ replica = NoPages

\* The same start, with a page behind every socket.
InitView ==
    /\ connected = {}
    /\ clients = << >>
    /\ controllers = << >>
    /\ room = {}
    /\ uploadedFiles = << >>
    /\ currentMediaState =
          [mediaType |-> "null", videoId |-> Null, fileUrl |-> Null,
           fileName |-> Null, time |-> Num(0), isPlaying |-> FALSE,
           volume |-> Num(DefaultVolume), isMuted |-> Bool(FALSE), lastUpdate |-> 0]
    /\ disk \in InitialDisks
    /\ watching = FALSE
    /\ pending = << >>
    /\ now = 0
    /\ lastTick = 0
    /\ events = 0
    /\ last = Ran("start", "none", NoData, << >>, 0)
    /\ sent = << >>
    /\ replica = [s \in Sockets |-> Fresh]

---------------------------------------------------------------------------
(* Audiences of an emit.                                                   *)

\* io.emit
toAll == connected

\* Faulty variant: the sender is not left out.
toOthersWithSender(s) == connected

\* socket.broadcast.emit
toOthers(s) == connected \ {s}

\* socket.emit
\* Faulty variant: io.emit in place of socket.emit.
toSelfAndOthers(s) == connected

toSelf(s) == {s}

\* io.to('controllers').emit
\* Faulty variant: the notification is not limited to the room.
toControllersEveryone == connected

toControllers == room

---------------------------------------------------------------------------
(* The command handler.                                                    *)

\* Faulty variant: any connected socket passes the role check.
isControllerAnyone(s) == s \in connected

\* controllers.has(socket.id)
isController(s) == s \in DOMAIN controllers

\* Faulty variant: the load starts from the defaults instead of the prior volume.
youtubeStateDefaults(videoId) ==
    [mediaType |-> "youtube", videoId |-> videoId, fileUrl |-> Null,
     fileName |-> Null, time |-> Num(0), isPlaying |-> TRUE,
     volume |-> Num(DefaultVolume), isMuted |-> Bool(FALSE), lastUpdate |-> now]

\* The state a successful youtube load assigns.
youtubeState(videoId) ==
    [mediaType |-> "youtube", videoId |-> videoId, fileUrl |-> Null,
     fileName |-> Null, time |-> Num(0), isPlaying |-> TRUE,
     volume |-> currentMediaState.volume, isMuted |-> currentMediaState.isMuted,
     lastUpdate |-> now]

\* Faulty variant: the local load leaves the video id of the previous media.
localStateKeepsVideoId(data) ==
    [mediaType |-> data.mediaType, videoId |-> currentMediaState.videoId,
     fileUrl |-> data.fileUrl, fileName |-> OrElse(data.fileName, Str(Unknown)),
     time |-> Num(0), isPlaying |-> TRUE,
     volume |-> currentMediaState.volume, isMuted |-> currentMediaState.isMuted,
     lastUpdate |-> now]

\* The state a successful local load assigns.
localState(data) ==
    [mediaType |-> data.mediaType, videoId |-> Null, fileUrl |-> data.fileUrl,
     fileName |-> OrElse(data.fileName, Str(Unknown)), time |-> Num(0),
     isPlaying |-> TRUE,
     volume |-> currentMediaState.volume, isMuted |-> currentMediaState.isMuted,
     lastUpdate |-> now]

\* broadcastData of the two load branches.
youtubeBroadcast(videoId) ==
    [Cmd("load") EXCEPT !.mediaType = "youtube", !.videoId = videoId, !.time = Num(0)]

localBroadcast(data) ==
    [Cmd("load") EXCEPT !.mediaType = data.mediaType, !.fileUrl = data.fileUrl,
                        !.fileName = data.fileName, !.time = Num(0)]

\* The two emits that end a successful load.
loadEmits(s, broadcastData, state) ==
    << Emit("command", broadcastData, toOthers(s)),
       Emit("current_state", state, toAll) >>

errorTo(s, message) == << Emit("error", [message |-> message], toSelf(s)) >>

\* The videoId the youtube branch works out: from data.url when it is
\* truthy, else data.videoId when that is truthy, else null.
resolveVideoId(data) ==
    IF Truthy(data.url) THEN ytMatch(data.url[2])
    ELSE IF Truthy(data.videoId) THEN data.videoId
    ELSE Null

loadYoutube(s, data) ==
    LET videoId == resolveVideoId(data)
    IN  IF Truthy(data.url) /\ ~Truthy(videoId)
        THEN [state |-> currentMediaState, sent |-> errorTo(s, "Invalid YouTube URL")]
        ELSE IF ~Truthy(videoId)
        THEN [state |-> currentMediaState,
              sent |-> errorTo(s, "Invalid YouTube URL or ID")]
        ELSE [state |-> youtubeState(videoId),
              sent |-> loadEmits(s, youtubeBroadcast(videoId), youtubeState(videoId))]

loadLocal(s, data) ==
    IF ~Truthy(data.fileUrl)
    THEN [state |-> currentMediaState, sent |-> errorTo(s, "File URL is required")]
    ELSE [state |-> localState(data),
          sent |-> loadEmits(s, localBroadcast(data), localState(data))]

\* Faulty variant: the command is passed on without being applied to the store.
updateMediaStateNotApplied(data) == currentMediaState

\* Faulty variant: a type without a case pauses the playback.
updateMediaStateDefaultPauses(data) ==
    LET cur == currentMediaState
        upd == CASE data.type = "play"    -> [cur EXCEPT !.isPlaying = TRUE]
                 [] data.type = "pause"   -> [cur EXCEPT !.isPlaying = FALSE]
                 [] data.type = "seek"    -> [cur EXCEPT !.time = OrElse(data.time, Num(0))]
                 [] data.type = "restart" -> [cur EXCEPT !.time = Num(0), !.isPlaying = TRUE]
                 [] data.type = "volume"  -> [cur EXCEPT !.volume = data.volume]
                 [] data.type = "mute"    -> [cur EXCEPT !.isMuted = data.muted]
                 [] OTHER                 -> [cur EXCEPT !.isPlaying = FALSE]
    IN  [upd EXCEPT !.lastUpdate = now]

\* Faulty variant: a numeric seek moves the position by data.time.
updateMediaStateRelativeSeek(data) ==
    LET cur == currentMediaState
        upd == CASE data.type = "play"    -> [cur EXCEPT !.isPlaying = TRUE]
                 [] data.type = "pause"   -> [cur EXCEPT !.isPlaying = FALSE]
                 [] data.type = "seek"    ->
                        IF data.time[1] = "num" /\ cur.time[1] = "num"
                        THEN [cur EXCEPT !.time = Num(cur.time[2] + data.time[2])]
                        ELSE [cur EXCEPT !.time = OrElse(data.time, Num(0))]
                 [] data.type = "restart" -> [cur EXCEPT !.time = Num(0), !.isPlaying = TRUE]
                 [] data.type = "volume"  -> [cur EXCEPT !.volume = data.volume]
                 [] data.type = "mute"    -> [cur EXCEPT !.isMuted = data.muted]
                 [] OTHER                 -> cur
    IN  [upd EXCEPT !.lastUpdate = now]

\* function updateMediaState(data)
updateMediaState(data) ==
    LET cur == currentMediaState
        upd == CASE data.type = "play"    -> [cur EXCEPT !.isPlaying = TRUE]
                 [] data.type = "pause"   -> [cur EXCEPT !.isPlaying = FALSE]
                 [] data.type = "seek"    -> [cur EXCEPT !.time = OrElse(data.time, Num(0))]
                 [] data.type = "restart" -> [cur EXCEPT !.time = Num(0), !.isPlaying = TRUE]
                 [] data.type = "volume"  -> [cur EXCEPT !.volume = data.volume]
                 [] data.type = "mute"    -> [cur EXCEPT !.isMuted = data.muted]
                 [] OTHER                 -> cur
    IN  [upd EXCEPT !.lastUpdate = now]

\* socket.on("command"): the new state and the emits, in order.
onCommand(s, data) ==
    IF ~isController(s)
    THEN [state |-> currentMediaState, sent |-> << >>]
    ELSE IF data.type = "load" /\ data.mediaType = "youtube"
    THEN loadYoutube(s, data)
    ELSE IF data.type = "load" /\ data.mediaType \in {"local_video", "local_audio"}
    THEN loadLocal(s, data)
    ELSE [state |-> updateMediaState(data),
          sent |-> << Emit("command", data, toOthers(s)) >>]

---------------------------------------------------------------------------
(* The catalog.                                                            *)

\* Faulty variant: the url is compared with the file name instead of searched for it.
isPlayingFileEquals(filename) ==
    /\ Truthy(currentMediaState.fileUrl)
    /\ currentMediaState.fileUrl[2] = filename

\* currentMediaState.fileUrl && currentMediaState.fileUrl.includes(filename)
isPlayingFile(filename) ==
    /\ Truthy(currentMediaState.fileUrl)
    /\ Includes(currentMediaState.fileUrl[2], filename)

\* The state the delete endpoint assigns when the playing file is deleted.
deleteStopState ==
    [mediaType |-> "null", videoId |-> Null, fileUrl |-> Null, fileName |-> Null,
     time |-> Num(0), isPlaying |-> FALSE,
     volume |-> currentMediaState.volume, isMuted |-> currentMediaState.isMuted,
     lastUpdate |-> now]

\* io.emit("command", { type: "stop" }); io.emit("current_state", ...)
deleteStopEmits ==
    << Emit("command", Cmd("stop"), toAll),
       Emit("current_state", deleteStopState, toAll) >>

\* Faulty variant: the watcher resets the whole record to its initial values.
watcherStopStateDefaults ==
    [mediaType |-> "null", videoId |-> Null, fileUrl |-> Null, fileName |-> Null,
     time |-> Num(0), isPlaying |-> FALSE,
     volume |-> Num(DefaultVolume), isMuted |-> Bool(FALSE), lastUpdate |-> now]

\* The state the watcher assigns when the playing file has gone.
watcherStopState ==
    [mediaType |-> "null", videoId |-> Null, fileUrl |-> Null, fileName |-> Null,
     time |-> Num(0), isPlaying |-> FALSE,
     volume |-> currentMediaState.volume, isMuted |-> currentMediaState.isMuted,
     lastUpdate |-> now]

\* The watcher's io.emit("command", { type: "stop" }) and
\* io.emit("current_state", ...)
watcherStopEmits ==
    << Emit("command", Cmd("stop"), toAll),
       Emit("current_state", watcherStopState, toAll) >>

\* The catalog after loadExistingFiles() over the directory listing.
loadExistingFiles(catalog, files) ==
    LET found == {f \in files : fileTypeOf(f) # "null" /\ f \notin DOMAIN catalog}
    IN  [f \in (DOMAIN catalog) \cup found |->
            IF f \in DOMAIN catalog THEN catalog[f] ELSE fileInfoOf(f)]

\* multer's fileFilter: the mime type is video/ or audio/, or the pattern
\* allowedTypes is found somewhere in the lower-cased extension.
fileFilter(orig, mime) ==
    \/ mime \in {"video", "audio"}
    \/ \E i \in 1..Len(allowedTypes) :
          Includes(toLowerCase(extname(orig)), allowedTypes[i])

\* fs.watch's callback for one change of `filename`: a timer is set.
schedule(filename) == IF watching THEN Append(pending, filename) ELSE pending

canSchedule == watching => Len(pending) < MaxTimers

---------------------------------------------------------------------------
(* The pages: what a connected page makes of the messages it is sent.      *)

\* A page applies a command, its own or one passed on to it, to its view.
applyCommand(view, data) ==
    IF view.mediaType = "unseen" THEN view
    ELSE CASE data.type = "load"    ->
                [view EXCEPT !.mediaType = data.mediaType,
                             !.videoId = IF data.mediaType = "youtube"
                                         THEN data.videoId ELSE Null,
                             !.fileUrl = IF data.mediaType = "youtube"
                                         THEN Null ELSE data.fileUrl,
                             !.fileName = IF data.mediaType = "youtube"
                                          THEN Null ELSE data.fileName,
                             !.time = Num(0), !.isPlaying = TRUE]
           [] data.type = "stop"    ->
                [view EXCEPT !.mediaType = "null", !.videoId = Null, !.fileUrl = Null,
                             !.fileName = Null, !.time = Num(0), !.isPlaying = FALSE]
           [] data.type = "play"    -> [view EXCEPT !.isPlaying = TRUE]
           [] data.type = "pause"   -> [view EXCEPT !.isPlaying = FALSE]
           [] data.type = "seek"    -> [view EXCEPT !.time = OrElse(data.time, Num(0))]
           [] data.type = "restart" -> [view EXCEPT !.time = Num(0), !.isPlaying = TRUE]
           [] data.type = "volume"  -> [view EXCEPT !.volume = data.volume]
           [] data.type = "mute"    -> [view EXCEPT !.isMuted = data.muted]
           [] OTHER                 -> view

\* A page takes a current_state as its view and applies a command.
applyMessage(view, msg) ==
    IF msg.ev = "current_state" THEN Strip(msg.data)
    ELSE IF msg.ev = "command" THEN applyCommand(view, msg.data)
    ELSE view

\* The view of the page of s after the emissions `emits`, in their order.
RECURSIVE DeliverAll(_, _, _)
DeliverAll(view, s, emits) ==
    IF emits = << >> THEN view
    ELSE DeliverAll(IF s \in Head(emits).to THEN applyMessage(view, Head(emits)) ELSE view,
                    s, Tail(emits))

\* The server accepts `data` from s: s is a controller and no error answers.
wouldAccept(s, data) ==
    /\ isController(s)
    /\ \A i \in 1..Len(onCommand(s, data).sent) : onCommand(s, data).sent[i].ev # "error"

\* The emissions of the step reach the pages that are connected after it;
\* `views` are the views before the delivery.  A socket that is not
\* connected has no page.
DeliveriesWith(views, outboxes) ==
    replica' = [s \in Sockets |->
                   IF s \in connected'
                   THEN [view |-> DeliverAll(views[s], s, sent'),
                         outbox |-> outboxes[s]]
                   ELSE Fresh]

Deliveries(views) == DeliveriesWith(views, [s \in Sockets |-> replica[s].outbox])

\* A step in which no page sends anything.
Observe ==
    IF replica = NoPages THEN UNCHANGED replica
    ELSE Deliveries([s \in Sockets |-> replica[s].view])

\* A step in which the page of s sends `data` and the server handles it at
\* once: a controller's page applies its accepted command when it sends it.
ObserveSent(s, data) ==
    IF replica = NoPages THEN UNCHANGED replica
    ELSE Deliveries([t \in Sockets |->
                       IF t = s /\ wouldAccept(s, data)
                       THEN applyCommand(replica[t].view, data)
                       ELSE replica[t].view])

---------------------------------------------------------------------------
(* Socket handlers.                                                        *)

\* io.on("connection")
Connect(s) ==
    /\ s \notin connected
    /\ events < MaxEvents
    /\ connected' = connected \cup {s}
    /\ events' = events + 1
    /\ last' = Ran("connection", s, NoData, << >>, 0)
    /\ sent' = << >>
    /\ UNCHANGED << clients, controllers, room, uploadedFiles, currentMediaState,
                    disk, watching, pending, now, lastTick >>
    /\ Observe

\* socket.on("identify")
Identify(s, r) ==
    /\ s \in connected
    /\ events < MaxEvents
    /\ LET role == IF r = "controller" THEN "controller" ELSE "client"
       IN  /\ controllers' = IF role = "controller"
                             THEN Put(controllers, s, now) ELSE controllers
           /\ clients' = IF role = "controller" THEN clients ELSE Put(clients, s, now)
           /\ room' = IF role = "controller" THEN room \cup {s} ELSE room
    /\ sent' = << Emit("current_state", currentMediaState, toSelf(s)),
                  Emit("clients_count", countsOf(clients', controllers'), toAll) >>
    /\ events' = events + 1
    /\ last' = Ran("identify", s, [NoData EXCEPT !.type = r], << >>, 0)
    /\ UNCHANGED << connected, uploadedFiles, currentMediaState, disk, watching,
                    pending, now, lastTick >>
    /\ Observe

\* socket.on("command")
Command(s, data) ==
    /\ s \in connected
    /\ events < MaxEvents
    /\ currentMediaState' = onCommand(s, data).state
    /\ sent' = onCommand(s, data).sent
    /\ events' = events + 1
    /\ last' = Ran("command", s, data, << >>, 0)
    /\ UNCHANGED << connected, clients, controllers, room, uploadedFiles, disk,
                    watching, pending, now, lastTick >>
    /\ ObserveSent(s, data)

\* socket.on("command") for a message equal to the one the same socket sent
\* last; status 1 records that it is a repetition.
Resend(s) ==
    /\ s \in connected
    /\ events < MaxEvents
    /\ last.op = "command"
    /\ last.sock = s
    /\ currentMediaState' = onCommand(s, last.data).state
    /\ sent' = onCommand(s, last.data).sent
    /\ events' = events + 1
    /\ last' = Ran("command", s, last.data, << >>, 1)
    /\ UNCHANGED << connected, clients, controllers, room, uploadedFiles, disk,
                    watching, pending, now, lastTick >>
    /\ ObserveSent(s, last.data)

\* The update closure of socket.on("heartbeat").
touch(map, s) == IF s \in DOMAIN map THEN [map EXCEPT ![s] = now] ELSE map

\* socket.on("heartbeat")
Heartbeat(s) ==
    /\ s \in connected
    /\ events < MaxEvents
    /\ clients' = touch(clients, s)
    /\ controllers' = touch(controllers, s)
    /\ events' = events + 1
    /\ last' = Ran("heartbeat", s, NoData, << >>, 0)
    /\ sent' = << >>
    /\ UNCHANGED << connected, room, uploadedFiles, currentMediaState, disk,
                    watching, pending, now, lastTick >>
    /\ Observe

\* Faulty variant: the snapshot is broadcast instead of sent to the requester.
onRequestSyncBroadcast(s) ==
    IF s \in DOMAIN clients
    THEN << Emit("current_state", currentMediaState, connected) >>
    ELSE << >>

\* What socket.on("request_sync") emits.
onRequestSync(s) ==
    IF s \in DOMAIN clients
    THEN << Emit("current_state", currentMediaState, toSelf(s)) >>
    ELSE << >>

\* socket.on("request_sync")
RequestSync(s) ==
    /\ s \in connected
    /\ events < MaxEvents
    /\ sent' = onRequestSync(s)
    /\ events' = events + 1
    /\ last' = Ran("request_sync", s, NoData, << >>, 0)
    /\ UNCHANGED << connected, clients, controllers, room, uploadedFiles,
                    currentMediaState, disk, watching, pending, now, lastTick >>
    /\ Observe

\* socket.on("disconnect"): the socket has left the namespace and its rooms
\* when the handler runs.
Disconnect(s) ==
    /\ s \in connected
    /\ events < MaxEvents
    /\ connected' = connected \ {s}
    /\ room' = room \ {s}
    /\ clients' = Drop(clients, s)
    /\ controllers' = Drop(controllers, s)
    /\ sent' = << Emit("clients_count", countsOf(clients', controllers'), connected') >>
    /\ events' = events + 1
    /\ last' = Ran("disconnect", s, NoData, << >>, 0)
    /\ UNCHANGED << uploadedFiles, currentMediaState, disk, watching, pending,
                    now, lastTick >>
    /\ Observe

---------------------------------------------------------------------------
(* Time and the cleanup interval.                                          *)

\* Faulty variant: the threshold is one cleanup period too long.
isStaleLate(lastSeen) == now - lastSeen > StaleTimeout + CleanupInterval

\* now - client.lastSeen > timeout
isStale(lastSeen) == now - lastSeen > StaleTimeout

\* The clients map after the sweep of the interval callback.
sweep(map) == [x \in {y \in DOMAIN map : ~isStale(map[y])} |-> map[x]]

\* The setInterval callback, every CleanupInterval milliseconds.
\* Faulty variant: the interval callback sweeps both registries.
CleanupTickBothRegistries ==
    /\ now - lastTick >= CleanupInterval
    /\ clients' = sweep(clients)
    /\ controllers' = sweep(controllers)
    /\ sent' = << Emit("clients_count", countsOf(clients', controllers'), toAll) >>
    /\ lastTick' = now
    /\ last' = Ran("cleanup", "none", NoData, << >>,
                   Cardinality(DOMAIN clients) - Cardinality(DOMAIN clients'))
    /\ UNCHANGED << connected, room, uploadedFiles, currentMediaState,
                    disk, watching, pending, now, events >>
    /\ Observe

CleanupTick ==
    /\ now - lastTick >= CleanupInterval
    /\ clients' = sweep(clients)
    /\ sent' = << Emit("clients_count", countsOf(clients', controllers), toAll) >>
    /\ lastTick' = now
    /\ last' = Ran("cleanup", "none", NoData, << >>,
                   Cardinality(DOMAIN clients) - Cardinality(DOMAIN clients'))
    /\ UNCHANGED << connected, controllers, room, uploadedFiles, currentMediaState,
                    disk, watching, pending, now, events >>
    /\ Observe

\* One cleanup period of time passes.  A due interval callback and the
\* 500 ms debounce timers run before the period is over.
Advance ==
    /\ now < MaxTicks * CleanupInterval
    /\ now - lastTick < CleanupInterval
    /\ pending = << >>
    /\ events < MaxEvents
    /\ now' = now + CleanupInterval
    /\ events' = events + 1
    /\ last' = Ran("advance", "none", NoData, << >>, 0)
    /\ sent' = << >>
    /\ UNCHANGED << connected, clients, controllers, room, uploadedFiles,
                    currentMediaState, disk, watching, pending, lastTick >>
    /\ Observe

---------------------------------------------------------------------------
(* HTTP endpoints of the catalog, and the directory.                       *)

\* app.post("/api/upload"): multer has stored the file under a fresh name
\* when the handler runs; a file the filter rejects never reaches it.
Upload(orig, mime) ==
    LET name == UniqueSuffix \o orig
        fileInfo == [id |-> name, originalName |-> orig, url |-> urlOf(name),
                     type |-> IF mime = "video" THEN "local_video" ELSE "local_audio"]
    IN  /\ events < MaxEvents
        /\ canSchedule
        /\ name \notin disk
        /\ IF fileFilter(orig, mime)
           THEN /\ disk' = disk \cup {name}
                /\ uploadedFiles' = Put(uploadedFiles, name, fileInfo)
                /\ pending' = schedule(name)
                /\ last' = Ran("upload", "none", NoData, name, 200)
           ELSE /\ UNCHANGED << disk, uploadedFiles, pending >>
                /\ last' = Ran("upload", "none", NoData, name, 500)
        /\ events' = events + 1
        /\ sent' = << >>
        /\ UNCHANGED << connected, clients, controllers, room, currentMediaState,
                        watching, now, lastTick >>
        /\ Observe

\* app.post("/api/files/rescan")
Rescan ==
    /\ events < MaxEvents
    /\ uploadedFiles' = loadExistingFiles(uploadedFiles, disk)
    /\ events' = events + 1
    /\ last' = Ran("rescan", "none", NoData, << >>, 200)
    /\ sent' = << >>
    /\ UNCHANGED << connected, clients, controllers, room, currentMediaState, disk,
                    watching, pending, now, lastTick >>
    /\ Observe

\* app.delete("/api/files/:filename")
DeleteFile(filename) ==
    /\ events < MaxEvents
    /\ canSchedule
    /\ IF filename \in disk
       THEN /\ disk' = disk \ {filename}
            /\ uploadedFiles' = Drop(uploadedFiles, filename)
            /\ pending' = schedule(filename)
            /\ IF isPlayingFile(filename)
               THEN /\ currentMediaState' = deleteStopState
                    /\ sent' = deleteStopEmits
               ELSE /\ UNCHANGED currentMediaState
                    /\ sent' = << >>
            /\ last' = Ran("delete", "none", NoData, filename, 200)
       ELSE /\ UNCHANGED << disk, uploadedFiles, pending, currentMediaState >>
            /\ sent' = << >>
            /\ last' = Ran("delete", "none", NoData, filename, 404)
    /\ events' = events + 1
    /\ UNCHANGED << connected, clients, controllers, room, watching, now, lastTick >>
    /\ Observe

\* Another process creates a file in the uploads directory.
ExternalCreate(filename) ==
    /\ events < MaxEvents
    /\ canSchedule
    /\ filename \notin disk
    /\ disk' = disk \cup {filename}
    /\ pending' = schedule(filename)
    /\ events' = events + 1
    /\ last' = Ran("fs_create", "none", NoData, filename, 0)
    /\ sent' = << >>
    /\ UNCHANGED << connected, clients, controllers, room, uploadedFiles,
                    currentMediaState, watching, now, lastTick >>
    /\ Observe

\* Another process deletes a file of the uploads directory.
ExternalDelete(filename) ==
    /\ events < MaxEvents
    /\ canSchedule
    /\ filename \in disk
    /\ disk' = disk \ {filename}
    /\ pending' = schedule(filename)
    /\ events' = events + 1
    /\ last' = Ran("fs_delete", "none", NoData, filename, 0)
    /\ sent' = << >>
    /\ UNCHANGED << connected, clients, controllers, room, uploadedFiles,
                    currentMediaState, watching, now, lastTick >>
    /\ Observe

---------------------------------------------------------------------------
(* The directory watcher.                                                  *)

\* The fs.watch callback for a further 'rename' or 'change' event of a file
\* (one change of a file can raise several events).
FsEvent(filename) ==
    /\ watching
    /\ events < MaxEvents
    /\ Len(pending) < MaxTimers
    /\ pending' = Append(pending, filename)
    /\ events' = events + 1
    /\ last' = Ran("fs_event", "none", NoData, filename, 0)
    /\ sent' = << >>
    /\ UNCHANGED << connected, clients, controllers, room, uploadedFiles,
                    currentMediaState, disk, watching, now, lastTick >>
    /\ Observe

\* Faulty variant: the callback does not look whether the file is cataloged
\* before it adds and announces it.
DebounceFireAnnouncesAgain ==
    /\ pending # << >>
    /\ LET filename == Head(pending)
       IN  /\ pending' = Tail(pending)
           /\ last' = Ran("timer", "none", NoData, filename, 0)
           /\ IF filename \in disk
              THEN /\ UNCHANGED currentMediaState
                   /\ IF fileTypeOf(filename) # "null"
                      THEN /\ uploadedFiles' = Put(uploadedFiles, filename, fileInfoOf(filename))
                           /\ sent' = << Emit("file_added", fileInfoOf(filename), toControllers) >>
                      ELSE /\ UNCHANGED uploadedFiles
                           /\ sent' = << >>
              ELSE IF filename \in DOMAIN uploadedFiles
              THEN /\ uploadedFiles' = Drop(uploadedFiles, filename)
                   /\ currentMediaState' =
                         IF isPlayingFile(filename) THEN watcherStopState
                                                    ELSE currentMediaState
                   /\ sent' = (IF isPlayingFile(filename) THEN watcherStopEmits ELSE << >>)
                              \o << Emit("file_removed", [filename |-> filename], toControllers) >>
              ELSE /\ UNCHANGED << uploadedFiles, currentMediaState >>
                   /\ sent' = << >>
    /\ UNCHANGED << connected, clients, controllers, room, disk, watching, now,
                    lastTick, events >>
    /\ Observe

\* The setTimeout callback of the watcher, 500 ms after its event: timers of
\* one delay fire in the order they were set.
DebounceFire ==
    /\ pending # << >>
    /\ LET filename == Head(pending)
       IN  /\ pending' = Tail(pending)
           /\ last' = Ran("timer", "none", NoData, filename, 0)
           /\ IF filename \in disk
              THEN /\ UNCHANGED currentMediaState
                   /\ IF filename \notin DOMAIN uploadedFiles /\ fileTypeOf(filename) # "null"
                      THEN /\ uploadedFiles' = Put(uploadedFiles, filename, fileInfoOf(filename))
                           /\ sent' = << Emit("file_added", fileInfoOf(filename), toControllers) >>
                      ELSE /\ UNCHANGED uploadedFiles
                           /\ sent' = << >>
              ELSE IF filename \in DOMAIN uploadedFiles
              THEN /\ uploadedFiles' = Drop(uploadedFiles, filename)
                   /\ currentMediaState' =
                         IF isPlayingFile(filename) THEN watcherStopState
                                                    ELSE currentMediaState
                   /\ sent' = (IF isPlayingFile(filename) THEN watcherStopEmits ELSE << >>)
                              \o << Emit("file_removed", [filename |-> filename], toControllers) >>
              ELSE /\ UNCHANGED << uploadedFiles, currentMediaState >>
                   /\ sent' = << >>
    /\ UNCHANGED << connected, clients, controllers, room, disk, watching, now,
                    lastTick, events >>
    /\ Observe

---------------------------------------------------------------------------
(* Specifications.                                                         *)

\* The server as `node server.js` runs it.
Next ==
    \/ \E s \in Sockets : Connect(s)
    \/ \E s \in Sockets, r \in Roles : Identify(s, r)
    \/ \E s \in Sockets, data \in Commands : Command(s, data)
    \/ \E s \in Sockets : Heartbeat(s)
    \/ \E s \in Sockets : RequestSync(s)
    \/ \E s \in Sockets : Disconnect(s)
    \/ CleanupTick
    \/ Advance
    \/ \E orig \in UploadNames, mime \in MimeKinds : Upload(orig, mime)
    \/ Rescan
    \/ \E f \in Files : DeleteFile(f)
    \/ \E f \in Files : ExternalCreate(f)
    \/ \E f \in Files : ExternalDelete(f)

Spec == Init /\ [][Next]_vars

\* WF of the callbacks the event loop itself schedules: the interval and
\* the debounce timers.
LiveSpec == Spec /\ WF_vars(CleanupTick) /\ WF_vars(DebounceFire)

\* The command handler alone, with every command of the model.
NextCommand ==
    \/ \E s \in Sockets : Connect(s)
    \/ \E s \in Sockets, r \in Roles : Identify(s, r)
    \/ \E s \in Sockets, data \in AllCommands : Command(s, data)
    \/ \E s \in Sockets : Disconnect(s)

SpecCommand == Init /\ [][NextCommand]_vars

\* updateMediaState under every command of PlaybackCommands, sent once or
\* twice in a row.
NextPlayback ==
    \/ \E s \in Sockets : Connect(s)
    \/ \E s \in Sockets, r \in Roles : Identify(s, r)
    \/ \E s \in Sockets, data \in PlaybackCommands : Command(s, data)
    \/ \E s \in Sockets : Resend(s)
    \/ \E s \in Sockets : Disconnect(s)

SpecPlayback == Init /\ [][NextPlayback]_vars

\* The dispatch of the command handler, with DispatchCommands.
NextDispatch ==
    \/ \E s \in Sockets : Connect(s)
    \/ \E s \in Sockets, r \in Roles : Identify(s, r)
    \/ \E s \in Sockets, data \in DispatchCommands : Command(s, data)
    \/ \E s \in Sockets : Disconnect(s)

SpecDispatch == Init /\ [][NextDispatch]_vars

\* The commands the pages send in SpecView.
ViewCommands ==
    { Cmd("play"), Cmd("pause"), [Cmd("volume") EXCEPT !.volume = Num(50)],
      LoadUrl(UrlWatch) }

\* The page of s sends a command: it is on its way to the server, and a
\* controller's page applies its accepted command at once.
SendCommand(s, data) ==
    /\ s \in connected
    /\ events < MaxEvents
    /\ Len(replica[s].outbox) < MaxOutbox
    /\ events' = events + 1
    /\ sent' = << >>
    /\ last' = Ran("send", s, data, << >>, 0)
    /\ replica' = [replica EXCEPT
                     ![s] = [view |-> IF wouldAccept(s, data)
                                      THEN applyCommand(replica[s].view, data)
                                      ELSE replica[s].view,
                             outbox |-> Append(replica[s].outbox, data)]]
    /\ UNCHANGED << connected, clients, controllers, room, uploadedFiles,
                    currentMediaState, disk, watching, pending, now, lastTick >>

\* The server receives the oldest command on its way from s and handles it.
ReceiveCommand(s) ==
    /\ s \in connected
    /\ replica[s].outbox # << >>
    /\ LET data == Head(replica[s].outbox)
       IN  /\ currentMediaState' = onCommand(s, data).state
           /\ sent' = onCommand(s, data).sent
           /\ last' = Ran("command", s, data, << >>, 0)
    /\ UNCHANGED << connected, clients, controllers, room, uploadedFiles, disk,
                    watching, pending, now, lastTick, events >>
    /\ DeliveriesWith([t \in Sockets |-> replica[t].view],
                      [t \in Sockets |-> IF t = s THEN Tail(replica[t].outbox)
                                         ELSE replica[t].outbox])

\* A socket delivers in order: identify is handled after what s sent before.
IdentifyInOrder(s, r) ==
    /\ replica[s].outbox = << >>
    /\ Identify(s, r)

\* Pages whose commands take time to reach the server.
NextView ==
    \/ \E s \in Sockets : Connect(s)
    \/ \E s \in Sockets, r \in Roles : IdentifyInOrder(s, r)
    \/ \E s \in Sockets, data \in ViewCommands : SendCommand(s, data)
    \/ \E s \in Sockets : ReceiveCommand(s)
    \/ \E s \in Sockets : Disconnect(s)

SpecView == InitView /\ [][NextView]_vars

\* The watcher under a caller of watchUploadsDirectory(): fs.watch is
\* installed, s1 has identified as controller and s2 as viewer, and
\* MaxWatchEvents events are left.
InitWatch ==
    /\ connected = {"s1", "s2"}
    /\ clients = [x \in {"s2"} |-> 0]
    /\ controllers = [x \in {"s1"} |-> 0]
    /\ room = {"s1"}
    /\ uploadedFiles = << >>
    /\ currentMediaState =
          [mediaType |-> "null", videoId |-> Null, fileUrl |-> Null,
           fileName |-> Null, time |-> Num(0), isPlaying |-> FALSE,
           volume |-> Num(DefaultVolume), isMuted |-> Bool(FALSE), lastUpdate |-> 0]
    /\ disk \in InitialDisks
    /\ watching = TRUE
    /\ pending = << >>
    /\ now = 0
    /\ lastTick = 0
    /\ events = MaxEvents - MaxWatchEvents
    /\ last = Ran("watch", "none", NoData, << >>, 0)
    /\ sent = << >>
    /\ replica = NoPages

NextWatch ==
    \/ \E s \in Sockets, data \in WatchCommands : Command(s, data)
    \/ \E s \in Sockets : Disconnect(s)
    \/ \E orig \in UploadNames, mime \in MimeKinds : Upload(orig, mime)
    \/ Rescan
    \/ \E f \in Files : DeleteFile(f)
    \/ \E f \in Files : ExternalCreate(f)
    \/ \E f \in Files : ExternalDelete(f)
    \/ \E f \in Files : FsEvent(f)
    \/ DebounceFire

SpecWatch == InitWatch /\ [][NextWatch]_vars

---------------------------------------------------------------------------
(* Vocabulary of the claims.                                               *)

LocalTypes == {"local_video", "local_audio"}

\* The step just taken ran the command handler for a registered controller.
ControllerCommand ==
    /\ last'.op = "command"
    /\ last'.sock \in DOMAIN controllers

\* u holds an 11-character id after one of the two accepted URL shapes.
HasVideoId(u) ==
    \E i \in 1..Len(u) : MatchAt(u, i, WatchLit) \/ MatchAt(u, i, ShortLit)

\* id is such an id of u.
IsVideoIdOf(u, id) ==
    \E i \in 1..Len(u) :
        \/ MatchAt(u, i, WatchLit) /\ CaptureAt(u, i, WatchLit) = id
        \/ MatchAt(u, i, ShortLit) /\ CaptureAt(u, i, ShortLit) = id

\* A youtube load the handler has to reject: a url without an id, or
\* neither url nor id.
InvalidYoutubeLoad(data) ==
    /\ data.type = "load"
    /\ data.mediaType = "youtube"
    /\ \/ Truthy(data.url) /\ ~HasVideoId(data.url[2])
       \/ ~Truthy(data.url) /\ ~Truthy(data.videoId)

\* A load the handler has to apply.
ValidLoad(data) ==
    /\ data.type = "load"
    /\ \/ /\ data.mediaType = "youtube"
          /\ \/ Truthy(data.url) /\ HasVideoId(data.url[2])
             \/ ~Truthy(data.url) /\ Truthy(data.videoId)
       \/ /\ data.mediaType \in LocalTypes
          /\ Truthy(data.fileUrl)

\* Exactly one error, to s alone.
ErrorOnlyTo(emits, s) ==
    /\ Len(emits) = 1
    /\ emits[1].ev = "error"
    /\ emits[1].to = {s}

\* v is the url of an entry of the catalog.
Resolves(v) == \E f \in DOMAIN uploadedFiles : uploadedFiles[f].url = v

\* The catalog entry of f is the one the playback state plays.
Referenced(f) ==
    /\ f \in DOMAIN uploadedFiles
    /\ currentMediaState.mediaType \in LocalTypes
    /\ currentMediaState.fileUrl = uploadedFiles[f].url

\* The playback state is the empty one: nothing loaded, stopped, at 0.
IsReset(state) ==
    /\ state.mediaType = "null"
    /\ state.videoId = Null
    /\ state.fileUrl = Null
    /\ state.isPlaying = FALSE
    /\ state.time = Num(0)

---------------------------------------------------------------------------
(* The claims.                                                             *)

\* C1: a command of any type from a connected session that is not registered
\* as a controller leaves the playback state as it is, lastUpdate included,
\* and nothing is emitted to anyone.
C1_RoleGating ==
    [][ (last'.op = "command" /\ last'.sock \notin DOMAIN controllers)
            => (currentMediaState' = currentMediaState /\ sent' = << >>) ]_vars

\* A viewer has sent a load while a controller is registered.
C1_Witness ==
    /\ last.op = "command"
    /\ last.data.type = "load"
    /\ last.sock \in DOMAIN clients
    /\ last.sock \notin DOMAIN controllers
    /\ DOMAIN controllers # {}

\* C2: a controller's youtube load whose url holds no 11-character id in
\* either accepted shape, or that has neither url nor id, leaves the playback
\* state unchanged and emits one error, to the sender alone.
C2_InvalidSource ==
    [][ (ControllerCommand /\ InvalidYoutubeLoad(last'.data))
            => /\ currentMediaState' = currentMediaState
               /\ ErrorOnlyTo(sent', last'.sock) ]_vars

\* A controller has sent a url with a ten-character id while another session
\* is connected.
C2_Witness ==
    /\ last.op = "command"
    /\ last.data = LoadUrl(UrlTenChars)
    /\ last.sock \in DOMAIN controllers
    /\ connected = Sockets
    /\ ErrorOnlyTo(sent, last.sock)

\* C3: after a controller's valid load the playback state has the loaded
\* media type and source (and the given file name for local media), time 0
\* and isPlaying true, and the volume and mute values it had before.
C3_LoadTransition ==
    [][ (ControllerCommand /\ ValidLoad(last'.data))
            => LET data == last'.data
                   new == currentMediaState'
               IN  /\ new.mediaType = data.mediaType
                   /\ new.time = Num(0)
                   /\ new.isPlaying = TRUE
                   /\ new.volume = currentMediaState.volume
                   /\ new.isMuted = currentMediaState.isMuted
                   /\ data.mediaType = "youtube" =>
                         /\ new.fileUrl = Null
                         /\ IF Truthy(data.url)
                            THEN new.videoId[1] = "str"
                                 /\ IsVideoIdOf(data.url[2], new.videoId[2])
                            ELSE new.videoId = data.videoId
                   /\ data.mediaType \in LocalTypes =>
                         /\ new.videoId = Null
                         /\ new.fileUrl = data.fileUrl
                         /\ Truthy(data.fileName) => new.fileName = data.fileName ]_vars

\* A youtube load by url has been applied over a changed volume and mute.
C3_Witness ==
    /\ last.op = "command"
    /\ last.data = LoadUrl(UrlShort)
    /\ currentMediaState.videoId = Str(IdShort)
    /\ currentMediaState.volume = Num(50)
    /\ currentMediaState.isMuted = Bool(TRUE)

\* C4: a valid load emits exactly two things, in this order: the load with
\* its normalized parameters to every connected session but the sender, then
\* the new playback state to every connected session, the sender included.
C4_LoadFanOut ==
    [][ (ControllerCommand /\ ValidLoad(last'.data))
            => /\ Len(sent') = 2
               /\ sent'[1].ev = "command"
               /\ sent'[1].to = connected \ {last'.sock}
               /\ sent'[1].data.type = "load"
               /\ sent'[1].data.mediaType = currentMediaState'.mediaType
               /\ sent'[1].data.time = Num(0)
               /\ sent'[1].data.videoId =
                     (IF last'.data.mediaType = "youtube"
                      THEN currentMediaState'.videoId ELSE Undef)
               /\ sent'[1].data.fileUrl =
                     (IF last'.data.mediaType = "youtube"
                      THEN Undef ELSE currentMediaState'.fileUrl)
               /\ sent'[2].ev = "current_state"
               /\ sent'[2].data = currentMediaState'
               /\ sent'[2].to = connected
               /\ last'.sock \in connected ]_vars

\* A load has gone out to the other session and the snapshot to both.
C4_Witness ==
    /\ last.op = "command"
    /\ last.data = LoadFile("local_video", FileB, Str(FileA))
    /\ connected = Sockets
    /\ Len(sent) = 2
    /\ sent[1].to = Sockets \ {last.sock}
    /\ sent[2].to = Sockets

\* C5: a controller's local load whose file reference is absent or is not
\* the url of a catalog entry leaves the playback state unchanged and emits
\* one error, to the sender alone.
C5_LocalLoadNeedsCatalogEntry ==
    [][ ( /\ ControllerCommand
          /\ last'.data.type = "load"
          /\ last'.data.mediaType \in LocalTypes
          /\ ~Resolves(last'.data.fileUrl) )
            => /\ currentMediaState' = currentMediaState
               /\ ErrorOnlyTo(sent', last'.sock) ]_vars

\* C6: whenever the catalog entry the playback state plays is removed, the
\* playback state right after the removal is the empty one: no media type,
\* no source, stopped, at 0.
C6_RemovalResets ==
    [][ \A f \in Files :
            (Referenced(f) /\ f \notin DOMAIN uploadedFiles')
                => IsReset(currentMediaState') ]_vars

\* The delete endpoint has removed the playing entry.
C6_Witness ==
    /\ last.op = "delete"
    /\ last.status = 200
    /\ last.file = FileB
    /\ IsReset(currentMediaState)
    /\ Len(sent) = 2

\* C7: once the file of the playing local entry is deleted from the uploads
\* directory by another process, eventually the entry has left the catalog
\* and the playback state is the empty one.
C7_ExternalDeletionResets ==
    \A f \in Files :
        [] ( (last.op = "fs_delete" /\ last.file = f /\ Referenced(f))
                => <> (f \notin DOMAIN uploadedFiles /\ IsReset(currentMediaState)) )

\* C8: a forced stop, by the watcher or by the delete endpoint, keeps volume
\* and mute, and emits to every connected session the command stop and then
\* the reset playback state.
C8_ForcedStop ==
    [][ ( /\ last'.op \in {"timer", "delete"}
          /\ Referenced(last'.file)
          /\ last'.file \notin DOMAIN uploadedFiles' )
            => /\ currentMediaState'.volume = currentMediaState.volume
               /\ currentMediaState'.isMuted = currentMediaState.isMuted
               /\ IsReset(currentMediaState')
               /\ Len(sent') >= 2
               /\ sent'[1] = Emit("command", Cmd("stop"), connected)
               /\ sent'[2] = Emit("current_state", currentMediaState', connected)
               /\ \A i \in 3..Len(sent') :
                     sent'[i].ev \notin {"command", "current_state"} ]_vars

\* The watcher has stopped a playback whose volume had been changed.
C8_Witness ==
    /\ last.op = "timer"
    /\ IsReset(currentMediaState)
    /\ currentMediaState.volume = Num(50)
    /\ Len(sent) = 3
    /\ sent[1].data.type = "stop"
    /\ sent[2].ev = "current_state"
    /\ sent[1].to = Sockets

\* C9 as stated: every connected session that sends request_sync is sent, to
\* it alone, the playback state of that moment.
C9_AnySessionGetsSnapshot ==
    [][ last'.op = "request_sync"
            => sent' = << Emit("current_state", currentMediaState, {last'.sock}) >> ]_vars

\* C9 amended: a session registered in clients that sends request_sync is
\* sent, to it alone, the playback state of that moment; any other session
\* is sent nothing; the playback state is not changed.
C9_ViewerGetsSnapshot ==
    [][ last'.op = "request_sync"
            => /\ currentMediaState' = currentMediaState
               /\ sent' = IF last'.sock \in DOMAIN clients
                          THEN << Emit("current_state", currentMediaState', {last'.sock}) >>
                          ELSE << >> ]_vars

\* A viewer has asked for a sync after a load, with another session connected.
C9_Witness ==
    /\ last.op = "request_sync"
    /\ last.sock \in DOMAIN clients
    /\ currentMediaState.mediaType # "null"
    /\ connected = Sockets
    /\ Len(sent) = 1

\* C10 as stated: after a cleanup tick no session of either registry whose
\* lastSeen is older than the threshold is still registered.
C10_SweepsEveryRole ==
    [][ last'.op = "cleanup"
            => /\ \A s \in DOMAIN clients :
                     now - clients[s] > StaleTimeout => s \notin DOMAIN clients'
               /\ \A s \in DOMAIN controllers :
                     now - controllers[s] > StaleTimeout => s \notin DOMAIN controllers' ]_vars

\* C10 amended: a cleanup tick removes from clients exactly the entries whose
\* lastSeen is older than the threshold, and the clients_count it emits has
\* the sizes after the removal; the disconnect of a session that is not in
\* clients leaves the number of clients as it is.
C10_SweepsViewers ==
    [][ /\ last'.op = "cleanup"
            => /\ DOMAIN clients' =
                     {s \in DOMAIN clients : ~(now - clients[s] > StaleTimeout)}
               /\ controllers' = controllers
               /\ sent' = << Emit("clients_count",
                                  [clients |-> Cardinality(DOMAIN clients'),
                                   controllers |-> Cardinality(DOMAIN controllers)],
                                  connected) >>
        /\ (last'.op = "disconnect" /\ last'.sock \notin DOMAIN clients)
            => /\ DOMAIN clients' = DOMAIN clients
               /\ sent'[1].data.clients = Cardinality(DOMAIN clients) ]_vars

\* A tick has removed a stale viewer whose socket is still connected.
C10_Witness ==
    /\ last.op = "cleanup"
    /\ last.status = 1
    /\ connected # {}
    /\ DOMAIN clients = {}
    /\ sent[1].data.clients = 0

\* C11: a cleanup tick leaves the controller registry as it is, however
\* old the lastSeen of its entries; an entry leaves the controller registry
\* only in the disconnect step of its own socket.
C11_ControllersNotSwept ==
    [][ /\ last'.op = "cleanup" => controllers' = controllers
        /\ \A s \in DOMAIN controllers :
              s \notin DOMAIN controllers'
                  => (last'.op = "disconnect" /\ last'.sock = s) ]_vars

\* A tick has run over a controller older than the threshold, and kept it.
C11_Witness ==
    /\ last.op = "cleanup"
    /\ \E s \in DOMAIN controllers : now - controllers[s] > StaleTimeout

\* C12: in every reachable state the media type is null exactly when videoId
\* and fileUrl are both null; with youtube a video id is present and fileUrl
\* is null; with a local type fileUrl is present and videoId is null.
C12_WellFormedState ==
    LET st == currentMediaState
    IN  /\ st.mediaType \in {"null", "youtube"} \cup LocalTypes
        /\ st.mediaType = "null" <=> (st.videoId = Null /\ st.fileUrl = Null)
        /\ st.mediaType = "youtube" => (Truthy(st.videoId) /\ st.fileUrl = Null)
        /\ st.mediaType \in LocalTypes => (Truthy(st.fileUrl) /\ st.videoId = Null)

\* A controller has loaded a local file after at least one other event
\* besides its connection and identification.
C12_Witness ==
    /\ last.op = "command"
    /\ last.data.type = "load"
    /\ currentMediaState.mediaType = "local_video"
    /\ currentMediaState.videoId = Null
    /\ Truthy(currentMediaState.fileUrl)
    /\ events >= 4

\* C13: no socket is in both registries, and an identify of a socket that is
\* already registered leaves it in the registry it was in and out of the
\* other one.
C13_OneImmutableRole ==
    [][ /\ DOMAIN clients' \cap DOMAIN controllers' = {}
        /\ \A s \in Sockets :
              (last'.op = "identify" /\ last'.sock = s
                  /\ s \in DOMAIN clients \cup DOMAIN controllers)
                  => /\ (s \in DOMAIN clients') = (s \in DOMAIN clients)
                     /\ (s \in DOMAIN controllers') = (s \in DOMAIN controllers) ]_vars

\* C14: every identify, disconnect and cleanup step ends with a clients_count
\* to all sockets connected after the step, carrying the sizes the two
\* registries have after the step.
C14_CountsBroadcast ==
    [][ last'.op \in {"identify", "disconnect", "cleanup"}
            => /\ Len(sent') >= 1
               /\ sent'[Len(sent')] =
                     Emit("clients_count",
                          [clients |-> Cardinality(DOMAIN clients'),
                           controllers |-> Cardinality(DOMAIN controllers')],
                          connected')
               /\ \A i \in 1..(Len(sent') - 1) : sent'[i].ev # "clients_count" ]_vars

\* One of two registered sockets, the viewer, has disconnected: the others
\* are told 0 clients and 1 controller.
C14_Witness ==
    /\ last.op = "disconnect"
    /\ Cardinality(connected) = 1
    /\ DOMAIN controllers = connected
    /\ DOMAIN clients = {}
    /\ events >= 5
    /\ sent[1].data = [clients |-> 0, controllers |-> 1]
    /\ sent[1].to = connected

\* The command types updateMediaState has a case for.
NonLoadTypes == {"play", "pause", "seek", "restart", "volume", "mute"}

\* v brought into lo..hi when it is a number.
Clamp(v, lo, hi) == IF v < lo THEN lo ELSE IF v > hi THEN hi ELSE v

\* C15: a play, pause, seek, restart, volume or mute command of a controller
\* is applied to the store (the field of its type and lastUpdate; media type
\* and source stay) and is emitted once, as received, to every connected
\* socket but the sender; nothing else is emitted.
C15_NonLoadCommands ==
    [][ (ControllerCommand /\ last'.data.type \in NonLoadTypes)
            => LET data == last'.data
                   new == currentMediaState'
               IN  /\ sent' = << Emit("command", data, connected \ {last'.sock}) >>
                   /\ last'.sock \in connected
                   /\ new.lastUpdate = now
                   /\ new.mediaType = currentMediaState.mediaType
                   /\ new.videoId = currentMediaState.videoId
                   /\ new.fileUrl = currentMediaState.fileUrl
                   /\ new.fileName = currentMediaState.fileName
                   /\ data.type = "play" => new.isPlaying = TRUE
                   /\ data.type = "pause" => new.isPlaying = FALSE
                   /\ data.type = "restart" => (new.isPlaying = TRUE /\ new.time = Num(0))
                   /\ data.type = "mute" => new.isMuted = data.muted
                   /\ data.type \notin {"seek", "restart"} => new.time = currentMediaState.time
                   /\ data.type # "volume" => new.volume = currentMediaState.volume ]_vars

\* A controller has sent restart while a second socket is connected.
C15_Witness ==
    /\ last.op = "command"
    /\ last.data.type = "restart"
    /\ last.sock \in DOMAIN controllers
    /\ connected = Sockets
    /\ currentMediaState.isPlaying
    /\ sent = << Emit("command", Cmd("restart"), Sockets \ {last.sock}) >>

\* C16: after a controller's seek the position is the given value when that
\* is a number >= 0, and 0 when it is negative, absent or not a number; so
\* the position is never negative.
C16_SeekClamped ==
    [][ (ControllerCommand /\ last'.data.type = "seek")
            => LET v == last'.data.time
               IN  currentMediaState'.time =
                      IF v[1] = "num" THEN Num(Clamp(v[2], 0, v[2])) ELSE Num(0) ]_vars

\* C17: after a controller's volume command with the number v the volume is
\* v clamped into 0..100.
C17_VolumeClamped ==
    [][ (ControllerCommand /\ last'.data.type = "volume" /\ last'.data.volume[1] = "num")
            => currentMediaState'.volume = Num(Clamp(last'.data.volume[2], 0, 100)) ]_vars

\* C19: when a controller sends the same seek or the same volume command
\* twice in a row, the second leaves every field but lastUpdate as the first
\* left it.
C19_Idempotence ==
    [][ ( /\ last.op = "command"
          /\ last'.op = "command"
          /\ last'.sock = last.sock
          /\ last'.data = last.data
          /\ last.sock \in DOMAIN controllers
          /\ last.data.type \in {"seek", "volume"} )
            => [currentMediaState' EXCEPT !.lastUpdate = 0]
                  = [currentMediaState EXCEPT !.lastUpdate = 0] ]_vars

\* A controller has sent seek 30 a second time.
C19_Witness ==
    /\ last.op = "command"
    /\ last.status = 1
    /\ last.sock \in DOMAIN controllers
    /\ last.data = [Cmd("seek") EXCEPT !.time = Num(30)]
    /\ currentMediaState.time = Num(30)

\* C18: when the server has started and has handled nothing yet, the
\* catalog has an entry for exactly the files of the uploads directory whose
\* extension is a known video or audio extension.
C18_StartupScan ==
    last.op = "start"
        => DOMAIN uploadedFiles = {f \in disk : fileTypeOf(f) # "null"}

\* C20: a delete request for a name that is not in the catalog is answered
\* 404 and changes neither the catalog, nor the playback state, nor the
\* uploads directory, and emits nothing.
C20_DeleteUnknownIsNotFound ==
    [][ (last'.op = "delete" /\ last'.file \notin DOMAIN uploadedFiles)
            => /\ last'.status = 404
               /\ uploadedFiles' = uploadedFiles
               /\ currentMediaState' = currentMediaState
               /\ disk' = disk
               /\ sent' = << >> ]_vars

\* C21: a controller command whose type is none of load, play, pause, seek,
\* restart, volume, mute changes no field of the playback state but
\* lastUpdate, emits no error, and is emitted once, as received, to every
\* connected socket but the sender.
C21_UnknownCommands ==
    [][ (ControllerCommand /\ last'.data.type \notin NonLoadTypes \cup {"load"})
            => /\ [currentMediaState' EXCEPT !.lastUpdate = 0]
                     = [currentMediaState EXCEPT !.lastUpdate = 0]
               /\ currentMediaState'.lastUpdate = now
               /\ sent' = << Emit("command", last'.data, connected \ {last'.sock}) >> ]_vars

\* A controller has sent a command of an unknown type, with parameters,
\* during a playback, while a second socket is connected.
C21_Witness ==
    /\ last.op = "command"
    /\ last.data = [Cmd(UnknownType) EXCEPT !.time = Num(30), !.volume = Num(50)]
    /\ last.sock \in DOMAIN controllers
    /\ connected = Sockets
    /\ currentMediaState.isPlaying
    /\ currentMediaState.time = Num(0)
    /\ Len(sent) = 1
    /\ sent[1].to = Sockets \ {last.sock}

\* C24: a load of a controller, whatever its media type and parameters, is
\* either applied, with the new playback state sent to every connected
\* socket, or rejected, with one error to the sender alone and the playback
\* state as it was; it is never passed on while the source stays.
C24_LoadAppliedOrRejected ==
    [][ (ControllerCommand /\ last'.data.type = "load")
            => \/ /\ currentMediaState'.mediaType = last'.data.mediaType
                  /\ currentMediaState'.time = Num(0)
                  /\ currentMediaState'.isPlaying = TRUE
                  /\ Len(sent') = 2
                  /\ sent'[2] = Emit("current_state", currentMediaState', connected)
               \/ /\ currentMediaState' = currentMediaState
                  /\ ErrorOnlyTo(sent', last'.sock) ]_vars

\* The connected sockets registered as controller.
RegisteredControllers == DOMAIN controllers \cap connected

\* The files with a known video or audio extension among fs.
Qualifying(fs) == {f \in fs : fileTypeOf(f) # "null"}

\* The emissions of this step that announce f as added, as removed.
AddedNow(f) ==
    {i \in 1..Len(sent') : sent'[i].ev = "file_added" /\ sent'[i].data.id = f}
RemovedNow(f) ==
    {i \in 1..Len(sent') : sent'[i].ev = "file_removed" /\ sent'[i].data.filename = f}

\* C22: a timer that finds its file present, not cataloged and of a known
\* extension adds exactly that entry and emits file_added to exactly the
\* registered controllers; one that finds a cataloged file absent removes
\* the entry and emits file_removed to exactly them; no file_added or
\* file_removed ever goes to a socket that is not a registered controller.
C22_CatalogNotifications ==
    [][ /\ ( /\ last'.op = "timer"
             /\ last'.file \in disk
             /\ last'.file \notin DOMAIN uploadedFiles
             /\ fileTypeOf(last'.file) # "null" )
            => /\ DOMAIN uploadedFiles' = DOMAIN uploadedFiles \cup {last'.file}
               /\ \A f \in DOMAIN uploadedFiles : uploadedFiles'[f] = uploadedFiles[f]
               /\ sent' = << Emit("file_added", uploadedFiles'[last'.file],
                                  RegisteredControllers) >>
        /\ ( /\ last'.op = "timer"
             /\ last'.file \notin disk
             /\ last'.file \in DOMAIN uploadedFiles )
            => /\ DOMAIN uploadedFiles' = DOMAIN uploadedFiles \ {last'.file}
               /\ Len(sent') >= 1
               /\ sent'[Len(sent')] = Emit("file_removed", [filename |-> last'.file],
                                           RegisteredControllers)
               /\ Cardinality(RemovedNow(last'.file)) = 1
        /\ \A i \in 1..Len(sent') :
              sent'[i].ev \in {"file_added", "file_removed"}
                  => sent'[i].to \subseteq RegisteredControllers ]_vars

\* The watcher has announced a new file to the controller while a viewer is
\* connected.
C22_Witness ==
    /\ last.op = "timer"
    /\ connected = Sockets
    /\ DOMAIN clients # {}
    /\ Len(sent) = 1
    /\ sent[1].ev = "file_added"
    /\ sent[1].to = DOMAIN controllers
    /\ sent[1].to # Sockets

\* C23: when the watcher or the delete endpoint removes a file or entry that
\* is not the entry the playback state plays, the playback state stays as it
\* is and neither a stop command nor a snapshot is emitted.
C23_StopOnlyForPlayedEntry ==
    [][ ( /\ \/ last'.op = "delete" /\ last'.status = 200
             \/ last'.op = "timer" /\ last'.file \in DOMAIN uploadedFiles
                                   /\ last'.file \notin DOMAIN uploadedFiles'
          /\ ~Referenced(last'.file) )
            => /\ currentMediaState' = currentMediaState
               /\ \A i \in 1..Len(sent') :
                     sent'[i].ev \notin {"command", "current_state"} ]_vars

\* C25: at no time is more than one timer pending for one file.
C25_OnePendingTimerPerFile ==
    \A f \in Files : Cardinality({i \in 1..Len(pending) : pending[i] = f}) <= 1

\* C26: after an upload, delete, rescan or change of the directory, once no
\* timer is pending, the catalog has an entry for exactly the files of the
\* directory with a known extension.
C26_CatalogMatchesDirectory ==
    ( /\ last.op \in {"upload", "delete", "rescan", "fs_create", "fs_delete",
                      "fs_event", "timer"}
      /\ pending = << >> )
        => DOMAIN uploadedFiles = Qualifying(disk)

\* C28: every identify, of either role and also of a socket that is already
\* registered, leaves the playback state as it is and emits it to the sender
\* alone, and after that the clients_count of the step.
C28_SnapshotOnIdentify ==
    [][ last'.op = "identify"
            => /\ currentMediaState' = currentMediaState
               /\ Len(sent') = 2
               /\ sent'[1] = Emit("current_state", currentMediaState, {last'.sock})
               /\ sent'[2].ev = "clients_count"
               /\ last'.sock \in connected ]_vars

\* A registered controller has identified again, as viewer, after a load,
\* while a second socket is connected.
C28_Witness ==
    /\ last.op = "identify"
    /\ last.data.type = "viewer"
    /\ last.sock \in DOMAIN controllers
    /\ connected = Sockets
    /\ currentMediaState.mediaType = "youtube"
    /\ sent[1] = Emit("current_state", currentMediaState, {last.sock})

\* C29: a step announces a file as added at most once, and only when it puts
\* the file, present in the directory, into the catalog it was not in; it
\* announces a file as removed at most once, and only when it takes the
\* file, absent from the directory, out of the catalog.  An entry leaves the
\* catalog only with its file absent and enters it only with its file
\* present, so two file_added for one name have a disappearance of the file
\* between them, and two file_removed an appearance.
C29_WatcherIdempotent ==
    [][ \A f \in Files :
            /\ Cardinality(AddedNow(f)) <= 1
            /\ Cardinality(RemovedNow(f)) <= 1
            /\ AddedNow(f) # {} => /\ f \notin DOMAIN uploadedFiles
                                   /\ f \in DOMAIN uploadedFiles'
                                   /\ f \in disk'
            /\ RemovedNow(f) # {} => /\ f \in DOMAIN uploadedFiles
                                     /\ f \notin DOMAIN uploadedFiles'
                                     /\ f \notin disk'
            /\ (f \in DOMAIN uploadedFiles /\ f \notin DOMAIN uploadedFiles')
                  => f \notin disk'
            /\ (f \notin DOMAIN uploadedFiles /\ f \in DOMAIN uploadedFiles')
                  => f \in disk' ]_vars

\* A timer has fired for a file that is present and already cataloged under
\* its own name, and has announced nothing.
C29_Witness ==
    /\ last.op = "timer"
    /\ last.file \in disk
    /\ last.file \in DOMAIN uploadedFiles
    /\ uploadedFiles[last.file] = fileInfoOf(last.file)
    /\ sent = << >>
    /\ pending = << >>
    /\ events = MaxEvents - MaxWatchEvents + 2

---------------------------------------------------------------------------
\* C27: the view of every connected page that has received a snapshot and
\* has no command on its way to the server equals the server's playback
\* state without lastUpdate.  Messages of the server reach the pages within
\* the step that emits them, so nothing else is in flight.
C27_ReplicaConvergence ==
    replica # NoPages =>
        \A s \in connected :
            (replica[s].view.mediaType # "unseen" /\ replica[s].outbox = << >>)
                => replica[s].view = Strip(currentMediaState)

===========================================================================
